---- MODULE Spec2Model ----
(***************************************************************************)
(* TemporalBinarySwitch (src/temporal_binary_switch.hpp): a boolean state  *)
(* with two edge flags, two setters, a dispatcher, two peeks and two       *)
(* consuming reads.  The switch is driven by a caller; the calls made so   *)
(* far, with their arguments, return values and the switch before and      *)
(* after, are kept in hist so that properties of call sequences can be     *)
(* stated.                                                                 *)
(***************************************************************************)
EXTENDS Naturals, Sequences, FiniteSets

VARIABLES state, m_just_switched_on, m_just_switched_off, hist

vars == <<state, m_just_switched_on, m_just_switched_off, hist>>

\* Longest call sequence explored by Spec.
MaxCalls == 5

\* Longest input sequence fed to the polling loop of SpecPoll.
MaxFrames == 6

\* The switch object as a value: its three fields.
This ==
  [state |-> state,
   m_just_switched_on |-> m_just_switched_on,
   m_just_switched_off |-> m_just_switched_off]

\* A void function's result: the object afterwards and no returned value.
Void(s) == [sw |-> s, ret |-> <<>>]

\* A bool function's result: the object afterwards and the returned value.
Returns(s, b) == [sw |-> s, ret |-> <<b>>]

-----------------------------------------------------------------------------
(* The member functions, as functions of the object s.                      *)

set_true_keeps_off(s) ==
  LET s1 == IF ~s.state
            THEN [s EXCEPT !.m_just_switched_on = TRUE]
            ELSE [s EXCEPT !.m_just_switched_on = FALSE]
  IN  [s1 EXCEPT !.state = TRUE]

set_true_no_flatten(s) ==
  LET s1 == IF ~s.state
            THEN [s EXCEPT !.m_just_switched_on = TRUE,
                           !.m_just_switched_off = FALSE]
            ELSE s
  IN  [s1 EXCEPT !.state = TRUE]

set_true(s) ==
  LET s1 == IF ~s.state
            THEN [s EXCEPT !.m_just_switched_on = TRUE,
                           !.m_just_switched_off = FALSE]
            ELSE [s EXCEPT !.m_just_switched_on = FALSE]
  IN  [s1 EXCEPT !.state = TRUE]

set_false_keeps_on(s) ==
  LET s1 == IF s.state
            THEN [s EXCEPT !.m_just_switched_off = TRUE]
            ELSE [s EXCEPT !.m_just_switched_off = FALSE]
  IN  [s1 EXCEPT !.state = FALSE]

set_false_no_flatten(s) ==
  LET s1 == IF s.state
            THEN [s EXCEPT !.m_just_switched_off = TRUE,
                           !.m_just_switched_on = FALSE]
            ELSE s
  IN  [s1 EXCEPT !.state = FALSE]

set_false_no_state(s) ==
  IF s.state
  THEN [s EXCEPT !.m_just_switched_off = TRUE,
                 !.m_just_switched_on = FALSE]
  ELSE [s EXCEPT !.m_just_switched_off = FALSE]

set_false(s) ==
  LET s1 == IF s.state
            THEN [s EXCEPT !.m_just_switched_off = TRUE,
                           !.m_just_switched_on = FALSE]
            ELSE [s EXCEPT !.m_just_switched_off = FALSE]
  IN  [s1 EXCEPT !.state = FALSE]

set_inverted(s, value) ==
  IF value THEN set_false(s) ELSE set_true(s)

set(s, value) ==
  IF value THEN set_true(s) ELSE set_false(s)

just_switched_on_returns_state(s) == Returns(s, s.state)

just_switched_on(s) == Returns(s, s.m_just_switched_on)

just_switched_off(s) == Returns(s, s.m_just_switched_off)

just_switched_on_temporal_no_clear(s) == Returns(s, s.m_just_switched_on)

just_switched_on_temporal(s) ==
  IF s.m_just_switched_on
  THEN Returns([s EXCEPT !.m_just_switched_on = FALSE], TRUE)
  ELSE Returns(s, FALSE)

just_switched_off_temporal_wrong_flag(s) ==
  IF s.m_just_switched_on
  THEN Returns([s EXCEPT !.m_just_switched_off = FALSE], TRUE)
  ELSE Returns(s, FALSE)

just_switched_off_temporal_no_clear(s) == Returns(s, s.m_just_switched_off)

just_switched_off_temporal(s) ==
  IF s.m_just_switched_off
  THEN Returns([s EXCEPT !.m_just_switched_off = FALSE], TRUE)
  ELSE Returns(s, FALSE)

-----------------------------------------------------------------------------
(* The caller.                                                              *)

\* One call: the object takes the value the function leaves, and the call is
\* appended to the log.
Call(op, args, r) ==
  /\ state' = r.sw.state
  /\ m_just_switched_on' = r.sw.m_just_switched_on
  /\ m_just_switched_off' = r.sw.m_just_switched_off
  /\ hist' = Append(hist, [op |-> op, args |-> args, ret |-> r.ret,
                           pre |-> This, post |-> r.sw])

Init_state_on ==
  /\ state = TRUE
  /\ m_just_switched_on = FALSE
  /\ m_just_switched_off = FALSE
  /\ hist = <<>>

Init ==
  /\ state = FALSE
  /\ m_just_switched_on = FALSE
  /\ m_just_switched_off = FALSE
  /\ hist = <<>>

call_set(value) ==
  /\ Len(hist) < MaxCalls
  /\ Call("set", <<value>>, Void(set(This, value)))

call_set_true ==
  /\ Len(hist) < MaxCalls
  /\ Call("set_true", <<>>, Void(set_true(This)))

call_set_false ==
  /\ Len(hist) < MaxCalls
  /\ Call("set_false", <<>>, Void(set_false(This)))

call_just_switched_on ==
  /\ Len(hist) < MaxCalls
  /\ Call("just_switched_on", <<>>, just_switched_on(This))

call_just_switched_off ==
  /\ Len(hist) < MaxCalls
  /\ Call("just_switched_off", <<>>, just_switched_off(This))

call_just_switched_on_temporal ==
  /\ Len(hist) < MaxCalls
  /\ Call("just_switched_on_temporal", <<>>, just_switched_on_temporal(This))

call_just_switched_off_temporal ==
  /\ Len(hist) < MaxCalls
  /\ Call("just_switched_off_temporal", <<>>, just_switched_off_temporal(This))

Next ==
  \/ \E value \in BOOLEAN : call_set(value)
  \/ call_set_true
  \/ call_set_false
  \/ call_just_switched_on
  \/ call_just_switched_off
  \/ call_just_switched_on_temporal
  \/ call_just_switched_off_temporal

Spec == Init /\ [][Next]_vars

-----------------------------------------------------------------------------
(* The polling loop: each frame feeds one observed value through set and    *)
(* then makes the two consuming reads, on first.                            *)

frame_set(value) ==
  /\ Len(hist) < 3 * MaxFrames
  /\ Len(hist) % 3 = 0
  /\ Call("set", <<value>>, Void(set(This, value)))

frame_on ==
  /\ Len(hist) % 3 = 1
  /\ Call("just_switched_on_temporal", <<>>, just_switched_on_temporal(This))

frame_off ==
  /\ Len(hist) % 3 = 2
  /\ Call("just_switched_off_temporal", <<>>, just_switched_off_temporal(This))

NextPoll ==
  \/ \E value \in BOOLEAN : frame_set(value)
  \/ frame_on
  \/ frame_off

SpecPoll == Init /\ [][NextPoll]_vars

-----------------------------------------------------------------------------
(* Vocabulary for statements about the call log.                            *)

\* The most recent call (only where hist is not empty).
Last == hist[Len(hist)]

\* A call that turns the switch on: set_true(), or set(true) which calls it.
IsSetOn(h) == h.op = "set_true" \/ (h.op = "set" /\ h.args = <<TRUE>>)

\* A call that turns the switch off: set_false(), or set(false).
IsSetOff(h) == h.op = "set_false" \/ (h.op = "set" /\ h.args = <<FALSE>>)

\* Any of the three setters.
IsSet(h) == IsSetOn(h) \/ IsSetOff(h)

IsConsumeOn(h) == h.op = "just_switched_on_temporal"

IsConsumeOff(h) == h.op = "just_switched_off_temporal"

\* The positions of the log holding each kind of call.
SetOnAt == {k \in 1..Len(hist) : IsSetOn(hist[k])}

SetOffAt == {k \in 1..Len(hist) : IsSetOff(hist[k])}

ConsumeOnAt == {k \in 1..Len(hist) : IsConsumeOn(hist[k])}

ConsumeOffAt == {k \in 1..Len(hist) : IsConsumeOff(hist[k])}

\* None of the positions S lies strictly between i and j.
NoneBetween(S, i, j) == \A k \in (i + 1)..(j - 1) : k \notin S

-----------------------------------------------------------------------------
\* C1: in every reachable state the two edge flags m_just_switched_on (rose)
\* and m_just_switched_off (fell) are never both true.
C1_MutualExclusion == ~(m_just_switched_on /\ m_just_switched_off)

\* A falling edge has just replaced a pending rise: the flags swapped.
C1_Witness ==
  /\ Len(hist) > 0
  /\ IsSetOff(Last)
  /\ Last.pre.m_just_switched_on
  /\ m_just_switched_off
  /\ ~m_just_switched_on

\* C2: an edge-producing set call sets exactly the matching flag: a set-on
\* call made while state was false leaves state = true, rose = true,
\* fell = false; a set-off call made while state was true leaves state = false,
\* fell = true, rose = false; whatever the flags were before the call.
C2_EdgeSetsMatchingFlag ==
  Len(hist) > 0 =>
    /\ (IsSetOn(Last) /\ ~Last.pre.state) =>
         (state /\ m_just_switched_on /\ ~m_just_switched_off)
    /\ (IsSetOff(Last) /\ Last.pre.state) =>
         (~state /\ m_just_switched_off /\ ~m_just_switched_on)

\* A rising edge made while a fall was still pending.
C2_Witness ==
  /\ Len(hist) > 0
  /\ IsSetOn(Last)
  /\ ~Last.pre.state
  /\ Last.pre.m_just_switched_off
  /\ m_just_switched_on

\* C3: a same-state set call clears only its own-direction flag and keeps the
\* state: set-on while on leaves rose = false and fell as it was; set-off while
\* off leaves fell = false and rose as it was.  After set_false(); set_true();
\* set_true() the peek just_switched_on() returns false.
C3_SameStateClearsOwnFlag ==
  Len(hist) > 0 =>
    /\ (IsSetOn(Last) /\ Last.pre.state) =>
         /\ state
         /\ ~m_just_switched_on
         /\ m_just_switched_off = Last.pre.m_just_switched_off
    /\ (IsSetOff(Last) /\ ~Last.pre.state) =>
         /\ ~state
         /\ ~m_just_switched_off
         /\ m_just_switched_on = Last.pre.m_just_switched_on
    /\ ( /\ Len(hist) >= 4
         /\ IsSetOff(hist[Len(hist) - 3])
         /\ IsSetOn(hist[Len(hist) - 2])
         /\ IsSetOn(hist[Len(hist) - 1])
         /\ Last.op = "just_switched_on" ) => Last.ret = <<FALSE>>

\* A repeated set-on has just flattened a rise that was still pending.
C3_Witness ==
  /\ Len(hist) > 0
  /\ IsSetOn(Last)
  /\ Last.pre.state
  /\ Last.pre.m_just_switched_on
  /\ ~m_just_switched_on

\* C4: a consuming read returns the value its flag had before the call and
\* leaves that flag false, with the state and the other flag unchanged.
C4_ConsumeReturnsAndClears ==
  Len(hist) > 0 =>
    /\ IsConsumeOn(Last) =>
         /\ Last.ret = <<Last.pre.m_just_switched_on>>
         /\ ~m_just_switched_on
         /\ state = Last.pre.state
         /\ m_just_switched_off = Last.pre.m_just_switched_off
    /\ IsConsumeOff(Last) =>
         /\ Last.ret = <<Last.pre.m_just_switched_off>>
         /\ ~m_just_switched_off
         /\ state = Last.pre.state
         /\ m_just_switched_on = Last.pre.m_just_switched_on

\* A consuming read of a pending fall returned true and cleared it.
C4_Witness ==
  /\ Len(hist) > 0
  /\ IsConsumeOff(Last)
  /\ Last.pre.m_just_switched_off
  /\ Last.ret = <<TRUE>>
  /\ ~m_just_switched_off

\* C5: of the just_switched_on_temporal calls made with no set-on call between
\* them, only the first can return true, whatever set-off, peek or
\* just_switched_off_temporal calls are interleaved; symmetrically for
\* just_switched_off_temporal and set-off calls.
C5_OnlyFirstConsumeFires ==
  \A i \in 1..Len(hist) : \A j \in (i + 1)..Len(hist) :
    /\ ( /\ IsConsumeOn(hist[i]) /\ IsConsumeOn(hist[j])
         /\ NoneBetween(SetOnAt, i, j) ) => hist[j].ret = <<FALSE>>
    /\ ( /\ IsConsumeOff(hist[i]) /\ IsConsumeOff(hist[j])
         /\ NoneBetween(SetOffAt, i, j) ) => hist[j].ret = <<FALSE>>

\* Two consuming reads with another call but no set-on between them: the first
\* returned true and the second false.
C5_Witness ==
  \E i \in 1..Len(hist) : \E j \in (i + 2)..Len(hist) :
    /\ IsConsumeOn(hist[i]) /\ IsConsumeOn(hist[j])
    /\ NoneBetween(SetOnAt, i, j)
    /\ hist[i].ret = <<TRUE>>
    /\ hist[j].ret = <<FALSE>>

-----------------------------------------------------------------------------
(* The polling loop's frames, read off the log: frame f (from 0) is the     *)
(* calls 3f+1 (set), 3f+2 (consume on) and 3f+3 (consume off).              *)

\* Frames whose three calls have all been made.
FramesDone == Len(hist) \div 3

\* The value fed at frame f; the fresh switch counts as a previous false.
Input(f) == IF f < 0 THEN FALSE ELSE hist[3 * f + 1].args[1]

\* What the two consuming reads of frame f returned.
ReportedOn(f) == hist[3 * f + 2].ret = <<TRUE>>

ReportedOff(f) == hist[3 * f + 3].ret = <<TRUE>>

\* The inputs of the frames done so far.
Inputs == [f \in 1..FramesDone |-> Input(f - 1)]

\* C6: in the polling loop (one set(v_i), then one just_switched_on_temporal
\* and one just_switched_off_temporal per frame, from a fresh switch) "turned
\* on" is reported at frame i exactly when v_i is true and v_(i-1) false (false
\* before the first frame), and "turned off" exactly when v_i is false and
\* v_(i-1) true; for the inputs false, false, true, true, false, false "turned
\* on" is reported at frame 2 only and "turned off" at frame 4 only.
C6_PollingReportsEdges ==
  /\ \A f \in 0..(FramesDone - 1) :
       /\ ReportedOn(f) <=> (Input(f) /\ ~Input(f - 1))
       /\ ReportedOff(f) <=> (~Input(f) /\ Input(f - 1))
  /\ Inputs = <<FALSE, FALSE, TRUE, TRUE, FALSE, FALSE>> =>
       /\ {f \in 0..5 : ReportedOn(f)} = {2}
       /\ {f \in 0..5 : ReportedOff(f)} = {4}

\* The six-frame scenario has run to its end with both reports made.
C6_Witness ==
  /\ Inputs = <<FALSE, FALSE, TRUE, TRUE, FALSE, FALSE>>
  /\ ReportedOn(2)
  /\ ReportedOff(4)

\* C7: rose is true exactly when the most recent set call was a set-on made
\* while state was false and no just_switched_on_temporal call has been made
\* since; fell is true exactly when the most recent set call was a set-off made
\* while state was true and no just_switched_off_temporal call has been made
\* since.
C7_FlagIffUnconsumedLatestEdge ==
  LET sets == {i \in 1..Len(hist) : IsSet(hist[i])}
      k == CHOOSE i \in sets : \A j \in sets : j <= i
  IN  /\ m_just_switched_on <=>
           /\ sets # {}
           /\ IsSetOn(hist[k])
           /\ ~hist[k].pre.state
           /\ NoneBetween(ConsumeOnAt, k, Len(hist) + 1)
      /\ m_just_switched_off <=>
           /\ sets # {}
           /\ IsSetOff(hist[k])
           /\ hist[k].pre.state
           /\ NoneBetween(ConsumeOffAt, k, Len(hist) + 1)

\* A falling edge is still pending after a consuming read of the other flag
\* and a peek.
C7_Witness ==
  /\ Len(hist) >= 3
  /\ IsSetOff(hist[Len(hist) - 2])
  /\ hist[Len(hist) - 2].pre.state
  /\ IsConsumeOn(hist[Len(hist) - 1])
  /\ Last.op = "just_switched_off"
  /\ m_just_switched_off

\* The part of C8 on the peeks themselves: just_switched_on and
\* just_switched_off return rose and fell and leave state, rose and fell
\* unchanged, so peeks with no set or consuming call between them return the
\* same value.
PeeksReturnFlagsUnchanged ==
  /\ Len(hist) > 0 =>
       /\ Last.op = "just_switched_on" =>
            /\ Last.ret = <<Last.pre.m_just_switched_on>>
            /\ This = Last.pre
       /\ Last.op = "just_switched_off" =>
            /\ Last.ret = <<Last.pre.m_just_switched_off>>
            /\ This = Last.pre
  /\ \A i \in 1..Len(hist) : \A j \in (i + 1)..Len(hist) :
       /\ ( /\ hist[i].op = "just_switched_on" /\ hist[j].op = "just_switched_on"
            /\ \A k \in (i + 1)..(j - 1) :
                 hist[k].op \in {"just_switched_on", "just_switched_off"} )
            => hist[j].ret = hist[i].ret
       /\ ( /\ hist[i].op = "just_switched_off" /\ hist[j].op = "just_switched_off"
            /\ \A k \in (i + 1)..(j - 1) :
                 hist[k].op \in {"just_switched_on", "just_switched_off"} )
            => hist[j].ret = hist[i].ret

\* C8 (as claimed): the peeks return rose and fell and leave state, rose and
\* fell unchanged, so consecutive peeks return the same value; after a rising
\* edge just_switched_on returns true on every call until the next set call.
C8_Original ==
  /\ PeeksReturnFlagsUnchanged
  /\ \A i \in 1..Len(hist) : \A j \in (i + 1)..Len(hist) :
       ( /\ IsSetOn(hist[i]) /\ ~hist[i].pre.state
         /\ hist[j].op = "just_switched_on"
         /\ \A k \in (i + 1)..(j - 1) : ~IsSet(hist[k]) )
         => hist[j].ret = <<TRUE>>

\* C8 (amended): the peeks return rose and fell and leave state, rose and fell
\* unchanged, so consecutive peeks return the same value; after a rising edge
\* just_switched_on returns true on every call until the next set call or
\* just_switched_on_temporal call, whatever peeks and just_switched_off_temporal
\* calls are made in between.
C8_PeekIsPure ==
  /\ PeeksReturnFlagsUnchanged
  /\ \A i \in 1..Len(hist) : \A j \in (i + 1)..Len(hist) :
       ( /\ IsSetOn(hist[i]) /\ ~hist[i].pre.state
         /\ hist[j].op = "just_switched_on"
         /\ \A k \in (i + 1)..(j - 1) :
              ~IsSet(hist[k]) /\ ~IsConsumeOn(hist[k]) )
         => hist[j].ret = <<TRUE>>

\* A rising edge, then a peek, a consuming read of the other flag, a peek of
\* the other flag and a peek that still sees the rise.
C8_Witness ==
  /\ Len(hist) = 5
  /\ IsSetOn(hist[1]) /\ ~hist[1].pre.state
  /\ hist[2].op = "just_switched_on"
  /\ IsConsumeOff(hist[3])
  /\ hist[4].op = "just_switched_off"
  /\ hist[5].op = "just_switched_on"
  /\ hist[5].ret = <<TRUE>>

\* C9: from every reachable state a set-off call immediately followed by a
\* set-on call leaves just_switched_on() true and just_switched_off() false,
\* and a set-on call immediately followed by a set-off call leaves
\* just_switched_off() true and just_switched_on() false.
C9_OffOnRisesOnOffFalls ==
  Len(hist) >= 2 =>
    /\ (IsSetOff(hist[Len(hist) - 1]) /\ IsSetOn(Last)) =>
         /\ just_switched_on(This).ret = <<TRUE>>
         /\ just_switched_off(This).ret = <<FALSE>>
    /\ (IsSetOn(hist[Len(hist) - 1]) /\ IsSetOff(Last)) =>
         /\ just_switched_off(This).ret = <<TRUE>>
         /\ just_switched_on(This).ret = <<FALSE>>

\* Set-off then set-on made from a state that was on with its rise consumed.
C9_Witness ==
  /\ Len(hist) = 4
  /\ IsSetOn(hist[1])
  /\ IsConsumeOn(hist[2])
  /\ IsSetOff(hist[3])
  /\ IsSetOn(hist[4])
  /\ m_just_switched_on

\* C10 (as the doc comments of set_true and set_false state it): a set-on call
\* made while state is already true, and a set-off call made while state is
\* already false, modify neither transition flag.
C10_SameStateSetKeepsFlags ==
  Len(hist) > 0 =>
    /\ (IsSetOn(Last) /\ Last.pre.state) =>
         /\ m_just_switched_on = Last.pre.m_just_switched_on
         /\ m_just_switched_off = Last.pre.m_just_switched_off
    /\ (IsSetOff(Last) /\ ~Last.pre.state) =>
         /\ m_just_switched_on = Last.pre.m_just_switched_on
         /\ m_just_switched_off = Last.pre.m_just_switched_off

\* The set calls of the log that changed state from off to on, and from on to
\* off.
RisesAt == {k \in SetOnAt : ~hist[k].pre.state}

FallsAt == {k \in SetOffAt : hist[k].pre.state}

\* C11: after any set call that is not itself a rising edge (set-on while on,
\* set-off while on, set-off while off) rose is false, and after any set call
\* that is not itself a falling edge fell is false: an edge flag left unread
\* before the next set call is not visible after it.
C11_NonEdgeSetLeavesFlagFalse ==
  (Len(hist) > 0 /\ IsSet(Last)) =>
    /\ Len(hist) \notin RisesAt => ~m_just_switched_on
    /\ Len(hist) \notin FallsAt => ~m_just_switched_off

\* A rise was pending, unread, when a set-off call was made: it is gone.
C11_Witness ==
  /\ Len(hist) >= 2
  /\ Len(hist) - 1 \in RisesAt
  /\ IsSetOff(Last)
  /\ Last.pre.m_just_switched_on
  /\ ~m_just_switched_on

\* The calls among the first n of the log that are in S.
UpTo(S, n) == {k \in S : k <= n}

\* The consuming reads of the log that returned true.
FiredOnAt == {k \in ConsumeOnAt : hist[k].ret = <<TRUE>>}

FiredOffAt == {k \in ConsumeOffAt : hist[k].ret = <<TRUE>>}

\* C12: just_switched_on_temporal returns true once per off-to-on transition:
\* at every point of the execution the calls that have returned true are no
\* more than the set calls that changed state from off to on, and between two
\* true returns (and before the first) there is such a set call; symmetrically
\* for just_switched_off_temporal and on-to-off transitions.
C12_OncePerTransition ==
  /\ \A n \in 0..Len(hist) :
       /\ Cardinality(UpTo(FiredOnAt, n)) <= Cardinality(UpTo(RisesAt, n))
       /\ Cardinality(UpTo(FiredOffAt, n)) <= Cardinality(UpTo(FallsAt, n))
  /\ \A j \in FiredOnAt :
       \E k \in RisesAt : k < j /\ \A i \in FiredOnAt : i < j => i < k
  /\ \A j \in FiredOffAt :
       \E k \in FallsAt : k < j /\ \A i \in FiredOffAt : i < j => i < k

\* Two rises, each consumed once: rise, true, fall, rise, true.
C12_Witness ==
  /\ Cardinality(FiredOnAt) = 2
  /\ Cardinality(RisesAt) = 2

-----------------------------------------------------------------------------
(* The accessor of the current state.  The header declares none (state is   *)
(* private and no member returns it); it is taken from the interface        *)
(* description: is_currently_on() returns state and changes nothing.        *)

is_currently_on(s) == Returns(s, s.state)

call_is_currently_on ==
  /\ Len(hist) < MaxCalls
  /\ Call("is_currently_on", <<>>, is_currently_on(This))

NextAccessor ==
  \/ Next
  \/ call_is_currently_on

SpecAccessor == Init /\ [][NextAccessor]_vars

\* The positions of the set calls of the log.
SetAt == SetOnAt \cup SetOffAt

\* The most recent set call (only where SetAt is not empty).
LastSetAt == CHOOSE k \in SetAt : \A j \in SetAt : j <= k

\* C13: state equals the argument of the most recent set call (true after a
\* set-on, false after a set-off) and is false if no set call has been made;
\* no peek or consuming read changes state; is_currently_on() returns state
\* and changes nothing.
C13_StateIsLastSetArgument ==
  /\ state = (SetAt # {} /\ LastSetAt \in SetOnAt)
  /\ \A i \in 1..Len(hist) :
       /\ IsSetOn(hist[i]) => hist[i].post.state
       /\ IsSetOff(hist[i]) => ~hist[i].post.state
       /\ ~IsSet(hist[i]) => hist[i].post.state = hist[i].pre.state
       /\ hist[i].op = "is_currently_on" =>
            /\ hist[i].ret = <<hist[i].pre.state>>
            /\ hist[i].post = hist[i].pre

\* On, read, consumed, then off and read again, the rise long consumed.
C13_Witness ==
  /\ Len(hist) = 5
  /\ IsSetOn(hist[1])
  /\ IsConsumeOn(hist[2])
  /\ hist[3].op = "is_currently_on" /\ hist[3].ret = <<TRUE>>
  /\ IsSetOff(hist[4])
  /\ hist[5].op = "is_currently_on" /\ hist[5].ret = <<FALSE>>
  /\ ~state

\* C14: a freshly created switch has state, rose and fell all false: before
\* any set call is_currently_on(), just_switched_on() and just_switched_off()
\* return false and so do both consuming reads.
C14_FreshSwitchIsOffNoEdges ==
  SetAt = {} =>
    /\ ~state /\ ~m_just_switched_on /\ ~m_just_switched_off
    /\ \A i \in 1..Len(hist) : hist[i].ret = <<FALSE>>

\* Each of the five reads has been made once on the fresh switch.
C14_Witness ==
  /\ SetAt = {}
  /\ {hist[i].op : i \in 1..Len(hist)} =
       {"is_currently_on", "just_switched_on", "just_switched_off",
        "just_switched_on_temporal", "just_switched_off_temporal"}

\* C15: for every reachable state and either value, set(value) leaves exactly
\* the state, rose and fell that set_true() leaves when value is true, and
\* that set_false() leaves when value is false.
C15_SetDispatches ==
  /\ \A i \in 1..Len(hist) :
       hist[i].op = "set" =>
         hist[i].post = IF hist[i].args[1] THEN set_true(hist[i].pre)
                                           ELSE set_false(hist[i].pre)
  /\ \A i \in 1..Len(hist) : \A j \in 1..Len(hist) :
       ( /\ hist[i].op = "set"
         /\ hist[j].op = IF hist[i].args[1] THEN "set_true" ELSE "set_false"
         /\ hist[i].pre = hist[j].pre ) => hist[i].post = hist[j].post

\* set(true) and set_true() were both called on a switch that was off with a
\* fall pending, and set(false) and set_false() both on a switch that was on.
C15_Witness ==
  \E i \in 1..Len(hist) : \E j \in 1..Len(hist) :
    /\ hist[i].op = "set" /\ hist[i].args = <<TRUE>>
    /\ hist[j].op = "set_true"
    /\ hist[i].pre = hist[j].pre
    /\ hist[i].pre.m_just_switched_off
    /\ \E k \in 1..Len(hist) : \E l \in 1..Len(hist) :
         /\ hist[k].op = "set" /\ hist[k].args = <<FALSE>>
         /\ hist[l].op = "set_false"
         /\ hist[k].pre = hist[l].pre
         /\ hist[k].pre.state

\* The four combinations of (state, rose, fell) the switch can be in.
OffNoEdge == [state |-> FALSE, m_just_switched_on |-> FALSE,
              m_just_switched_off |-> FALSE]

OnRose == [state |-> TRUE, m_just_switched_on |-> TRUE,
           m_just_switched_off |-> FALSE]

OnNoEdge == [state |-> TRUE, m_just_switched_on |-> FALSE,
             m_just_switched_off |-> FALSE]

OffFell == [state |-> FALSE, m_just_switched_on |-> FALSE,
            m_just_switched_off |-> TRUE]

\* The values the object has had so far.
Visited == {OffNoEdge} \cup {hist[i].post : i \in 1..Len(hist)}

\* C16: rose implies state = true and fell implies state = false, so the
\* switch is only ever in one of four of the eight combinations: (off, no
\* flag), (on, rose), (on, no flag), (off, fell); and all four are reached.
C16_FourCombinations ==
  /\ m_just_switched_on => state
  /\ m_just_switched_off => ~state
  /\ This \in {OffNoEdge, OnRose, OnNoEdge, OffFell}
  /\ Visited \subseteq {OffNoEdge, OnRose, OnNoEdge, OffFell}

\* One run has been through all four combinations.
C16_Witness ==
  /\ Visited = {OffNoEdge, OnRose, OnNoEdge, OffFell}
  /\ This = OffFell

-----------------------------------------------------------------------------
(* Two variant switches with another same-state policy, run on the calls of *)
(* the log beside the switch itself.                                        *)

\* Variant "untouched": set_true leaves rose as it is when state is already
\* true; set_false is the header's.
untouched_set_true(s) ==
  LET s1 == IF ~s.state
            THEN [s EXCEPT !.m_just_switched_on = TRUE,
                           !.m_just_switched_off = FALSE]
            ELSE s
  IN  [s1 EXCEPT !.state = TRUE]

\* Variant "both": a same-state set_true clears fell as well as rose, and a
\* same-state set_false clears rose as well as fell.
both_set_true(s) ==
  LET s1 == IF ~s.state
            THEN [s EXCEPT !.m_just_switched_on = TRUE,
                           !.m_just_switched_off = FALSE]
            ELSE [s EXCEPT !.m_just_switched_on = FALSE,
                           !.m_just_switched_off = FALSE]
  IN  [s1 EXCEPT !.state = TRUE]

both_set_false(s) ==
  LET s1 == IF s.state
            THEN [s EXCEPT !.m_just_switched_off = TRUE,
                           !.m_just_switched_on = FALSE]
            ELSE [s EXCEPT !.m_just_switched_off = FALSE,
                           !.m_just_switched_on = FALSE]
  IN  [s1 EXCEPT !.state = FALSE]

VariantSetTrue(v, s) ==
  IF v = "untouched" THEN untouched_set_true(s) ELSE both_set_true(s)

VariantSetFalse(v, s) ==
  IF v = "untouched" THEN set_false(s) ELSE both_set_false(s)

\* Variant v's result of the logged call h made on its object s.
VariantStep(v, s, h) ==
  CASE h.op = "set_true" -> Void(VariantSetTrue(v, s))
    [] h.op = "set_false" -> Void(VariantSetFalse(v, s))
    [] h.op = "set" -> Void(IF h.args[1] THEN VariantSetTrue(v, s)
                                         ELSE VariantSetFalse(v, s))
    [] h.op = "just_switched_on" -> just_switched_on(s)
    [] h.op = "just_switched_off" -> just_switched_off(s)
    [] h.op = "just_switched_on_temporal" -> just_switched_on_temporal(s)
    [] h.op = "just_switched_off_temporal" -> just_switched_off_temporal(s)

\* Variant v's object after the first n calls of the log, from a fresh one.
RECURSIVE VariantObject(_, _)
VariantObject(v, n) ==
  IF n = 0 THEN OffNoEdge
  ELSE VariantStep(v, VariantObject(v, n - 1), hist[n]).sw

\* What variant v returns at the n-th call of the log.
VariantRet(v, n) == VariantStep(v, VariantObject(v, n - 1), hist[n]).ret

\* The operations called so far, in order.
Ops == [i \in 1..Len(hist) |-> hist[i].op]

\* C17: the same-state policy shows in one direction only.  The variant whose
\* set_true leaves rose untouched when state is already true answers
\* differently from the switch after set_true(); set_true(), both to
\* just_switched_on() and to just_switched_on_temporal(); the variant whose
\* same-state set_true also clears fell and whose same-state set_false also
\* clears rose answers every call of every call sequence as the switch does.
C17_PolicyObservableOneWay ==
  /\ \A n \in 1..Len(hist) : VariantRet("both", n) = hist[n].ret
  /\ Ops \in {<<"set_true", "set_true", "just_switched_on">>,
              <<"set_true", "set_true", "just_switched_on_temporal">>} =>
       /\ hist[3].ret = <<FALSE>>
       /\ VariantRet("untouched", 3) = <<TRUE>>

\* After two set_true calls the consuming read gives false on the switch and
\* true on the variant that leaves rose untouched.
C17_Witness ==
  /\ Ops = <<"set_true", "set_true", "just_switched_on_temporal">>
  /\ VariantRet("untouched", 3) # hist[3].ret
  /\ VariantRet("both", 3) = hist[3].ret

-----------------------------------------------------------------------------
(* Reachability among the values of the object.                             *)

\* The values one set_true or set_false call leads to from the values S.
SetSuccessors(S) == {set_true(s) : s \in S} \cup {set_false(s) : s \in S}

\* The values one call of any member leads to from the values S.
CallSuccessors(S) ==
  SetSuccessors(S)
    \cup {just_switched_on(s).sw : s \in S}
    \cup {just_switched_off(s).sw : s \in S}
    \cup {just_switched_on_temporal(s).sw : s \in S}
    \cup {just_switched_off_temporal(s).sw : s \in S}

\* The values reached from S by any number of set_true / set_false calls.
RECURSIVE SetClosure(_)
SetClosure(S) ==
  IF SetSuccessors(S) \subseteq S THEN S ELSE SetClosure(S \cup SetSuccessors(S))

\* The values reached from S by any number of calls.
RECURSIVE CallClosure(_)
CallClosure(S) ==
  IF CallSuccessors(S) \subseteq S THEN S
  ELSE CallClosure(S \cup CallSuccessors(S))

\* The values reached from s by one or more set_true / set_false calls.
ReachedBySets(s) == SetClosure(SetSuccessors({s}))

\* Every value a switch can have.
Reachable == CallClosure({OffNoEdge})

\* C18: the switch has no terminal or absorbing state: from every reachable
\* state each reachable value of the object, the initial one included, is
\* reached again by some finite sequence of set_true / set_false calls, so a
\* rising and a falling edge can be produced again after any history.
C18_NoAbsorbingState ==
  /\ This \in Reachable
  /\ Reachable \subseteq ReachedBySets(This)
  /\ {OffNoEdge, OnRose, OffFell} \subseteq ReachedBySets(This)

\* Off with a fall pending after a rise that was consumed: the initial value
\* and a fresh rise are both still ahead.
C18_Witness ==
  /\ Len(hist) >= 3
  /\ FiredOnAt # {}
  /\ This = OffFell
  /\ OffNoEdge \in ReachedBySets(This)
  /\ OnRose \in ReachedBySets(This)

====
